---- MODULE Spec2Model ----
(***************************************************************************)
(* A model of hefestodb's util::cache (src/src/util/cache.rs): the         *)
(* intrusive LRUList<CacheKey> and the Cache<T> built on it.               *)
(*                                                                         *)
(* The list is modelled at the level of its memory.  Every LRUNode lives   *)
(* at an address, the sentinel at address head; a Box<LRUNode> and a raw   *)
(* *mut LRUNode are both an address, Option::None is Nil.  When a Box is   *)
(* dropped its nodes are freed and every pointer that still names one of   *)
(* them becomes Dangling.  Going through a dangling pointer is undefined   *)
(* behaviour: the source does not say what the call then does, and the     *)
(* model lets it panic, kill the process, or carry on in a state of which  *)
(* nothing is known ("undefined"); no call is modelled after that.         *)
(***************************************************************************)
EXTENDS Integers, Sequences, FiniteSets, TLC

\* ------------------------------------------------------------ bounds
MaxCap == 2
MaxKey == 3
MaxVal == 2
MaxId  == 2

Keys      == 1..MaxKey
Vals      == 1..MaxVal
\* the heap: Box::new returns an address that is not allocated
NodeAddrs == 1..(MaxCap + 1)

\* ------------------------------------------------------------ encoding
head     == 0        \* &mut self.head
Nil      == -1       \* Option::None of a Box or of a raw pointer
Dangling == -2       \* a pointer to a node that has been freed
NoData   == 0        \* Option::None of `data`, of a return value
Addrs    == {head} \cup NodeAddrs

VARIABLES
    status,     \* "unbuilt" | "live" | "panicked" | "aborted" | "undefined"
    cap,        \* Cache::cap
    id,         \* Cache::id
    count,      \* LRUList::count
    mem,        \* the LRUNodes by address: [next, prev, data]
    alloc,      \* the addresses of the Boxes that are currently allocated
    map,        \* Cache::map: key -> [elem, handle]
    ub,         \* a call has gone through a dangling pointer
    op,         \* the last call: [name, arg]
    ret,        \* what the last call returned (NoData: None or ())
    touched,    \* the live keys by their last insert or successful get,
                \* newest first
    idCalls     \* how many times new_cache_id has been called

vars == <<status, cap, id, count, mem, alloc, map, ub, op, ret, touched, idCalls>>

\* The other parts of util are modelled each in a variable of its own and
\* each under a specification of its own; a specification leaves the parts
\* it is not about unbuilt.
VARIABLES
    arena,      \* util::arena::Arena
    crc,        \* a checksum going through util::crc32::mask and unmask
    atom,       \* two threads sharing a util::atomic cell
    rnd,        \* util::random::Random, one generator per seed
    lru         \* an LRUList<T> driven directly, as the tests of cache.rs do

elsewhere == <<arena, crc, atom, rnd, lru>>

Unbuilt == [status |-> "unbuilt"]

\* ------------------------------------------------------------ LRUNode
EmptyNode == [next |-> Nil, prev |-> Nil, data |-> NoData]

\* LRUList::new: the sentinel holds nothing and points nowhere
LRUListNew == [a \in Addrs |-> EmptyNode]

\* (*a).f = v
W(m, a, f, v) == [m EXCEPT ![a] = [@ EXCEPT ![f] = v]]

\* the nodes a Box owns through the chain of `next`: dropping the Box
\* frees them all
RECURSIVE Chain(_, _, _)
Chain(m, p, seen) ==
    IF p = Nil \/ p = Dangling \/ p \in seen THEN seen
    ELSE Chain(m, m[p].next, seen \cup {p})

Owned(m, p) == Chain(m, p, {})

\* ------------------------------------------------------------ LRUList
\* what a list operation leaves behind: the memory, the Boxes it freed,
\* the count, the value returned, whether it panicked, whether it went
\* through a dangling pointer
Res(m, fr, cnt, r) ==
    [mem |-> m, freed |-> fr, count |-> cnt, ret |-> r, panic |-> FALSE,
     ub |-> \E a \in fr : m[a].next = Dangling]

Panic(m, cnt) ==
    [mem |-> m, freed |-> {}, count |-> cnt, ret |-> NoData, panic |-> TRUE,
     ub |-> FALSE]

Undef(m, cnt) ==
    [mem |-> m, freed |-> {}, count |-> cnt, ret |-> NoData, panic |-> FALSE,
     ub |-> TRUE]

\* LRUList::insert(elem), the new Box at address a: the node goes right
\* after the sentinel; head.prev is set only when the list was empty
ListInsert(m, cnt, a, elem) ==
    LET first == m[head].next
        m1    == [m EXCEPT ![a] = [data |-> elem, next |-> Nil, prev |-> head]]
    IN  IF first = Nil
        THEN LET m2 == W(m1, head, "prev", a)
                 m3 == W(m2, head, "next", a)
             IN  Res(m3, {}, cnt + 1, a)
        ELSE IF first = Dangling THEN Undef(m1, cnt + 1)
        ELSE LET m2 == W(m1, first, "prev", a)
                 m3 == W(m2, a, "next", m2[head].next)
                 m4 == W(m3, head, "next", a)
             IN  Res(m4, {}, cnt + 1, a)

\* a remove_last that takes the node out and leaves count as it was
ListRemoveLastUncounted(m, cnt) ==
    IF cnt = 0 THEN Res(m, {}, cnt, NoData)
    ELSE
    LET hp == m[head].prev IN
    IF hp = Nil THEN Panic(m, cnt)
    ELSE IF hp = Dangling THEN Undef(m, cnt)
    ELSE
    LET pp == m[hp].prev IN
    IF pp = Nil THEN Panic(m, cnt)
    ELSE IF pp = Dangling THEN Undef(m, cnt)
    ELSE
    LET lasto == m[pp].next
        m1    == W(m, pp, "next", Nil)
    IN
    IF lasto = Nil THEN Panic(m1, cnt)
    ELSE IF lasto = Dangling THEN Undef(m1, cnt)
    ELSE IF m1[lasto].prev = Nil THEN Panic(m1, cnt)
    ELSE
    LET m2 == W(m1, head, "prev", m1[lasto].prev)
        d  == m2[lasto].data
        m3 == W(m2, lasto, "data", NoData)
    IN  Res(m3, Owned(m3, lasto), cnt, d)

\* LRUList::remove_last: the node is found through head.prev and its own
\* prev; the Box taken out of the predecessor is dropped at the end, with
\* every node it still owns
ListRemoveLast(m, cnt) ==
    IF cnt = 0 THEN Res(m, {}, cnt, NoData)
    ELSE
    LET hp == m[head].prev IN
    IF hp = Nil THEN Panic(m, cnt)
    ELSE IF hp = Dangling THEN Undef(m, cnt)
    ELSE
    LET pp == m[hp].prev IN
    IF pp = Nil THEN Panic(m, cnt)
    ELSE IF pp = Dangling THEN Undef(m, cnt)
    ELSE
    LET lasto == m[pp].next
        m1    == W(m, pp, "next", Nil)
    IN
    IF lasto = Nil THEN Panic(m1, cnt)
    ELSE IF lasto = Dangling THEN Undef(m1, cnt)
    ELSE IF m1[lasto].prev = Nil THEN Panic(m1, cnt)
    ELSE
    LET m2 == W(m1, head, "prev", m1[lasto].prev)
        d  == m2[lasto].data
        m3 == W(m2, lasto, "data", NoData)
    IN  Res(m3, Owned(m3, lasto), cnt - 1, d)

\* LRUList::remove(node_handle): unlinks the node and relinks its
\* neighbours; head.prev is not written
ListRemove(m, cnt, node_handle) ==
    IF node_handle = Dangling THEN Undef(m, cnt)
    ELSE
    LET d  == m[node_handle].data
        m1 == W(m, node_handle, "data", NoData)
        p0 == m1[node_handle].prev
    IN
    IF d = NoData \/ p0 = Nil THEN Panic(m1, cnt)
    ELSE IF p0 = Dangling THEN Undef(m1, cnt)
    ELSE
    LET current == m1[p0].next
        m2      == W(m1, p0, "next", Nil)
    IN
    IF current = Nil THEN Panic(m2, cnt)
    ELSE IF current = Dangling THEN Undef(m2, cnt)
    ELSE
    LET prev == m2[current].prev
        nx   == m2[current].next
    IN
    IF prev = Nil THEN Panic(m2, cnt)
    ELSE IF prev = Dangling \/ nx = Dangling THEN Undef(m2, cnt)
    ELSE
    LET m3  == IF nx # Nil
               THEN W(W(m2, current, "prev", Nil), nx, "prev", prev)
               ELSE m2
        v   == m3[current].next
        m4  == W(m3, current, "next", Nil)
        old == m4[prev].next
        m5  == W(m4, prev, "next", v)
        \* the Box that (*prev).next held is dropped by the assignment,
        \* `current` at the end of the block
        fr  == Owned(m5, current) \cup Owned(m4, old)
    IN  Res(m5, fr, cnt - 1, d)

\* LRUList::reinsert_front(node_handle)
ListReinsertFront(m, cnt, node_handle) ==
    IF node_handle = Dangling THEN Undef(m, cnt)
    ELSE
    LET prevp == m[node_handle].prev
        nx    == m[node_handle].next
    IN
    IF prevp = Nil THEN Panic(m, cnt)
    ELSE IF prevp = Dangling \/ nx = Dangling THEN Undef(m, cnt)
    ELSE
    LET m1 == IF nx # Nil THEN W(m, nx, "prev", prevp)
                          ELSE W(m, head, "prev", prevp)
        \* swap(&mut (*prevp).next, &mut (*node_handle).next)
        m2 == W(W(m1, prevp, "next", m1[node_handle].next),
                node_handle, "next", m1[prevp].next)
        \* swap(&mut (*node_handle).next, &mut self.head.next)
        m3 == W(W(m2, node_handle, "next", m2[head].next),
                head, "next", m2[node_handle].next)
        newnext == m3[node_handle].next
    IN
    IF newnext = Dangling THEN Undef(m3, cnt)
    ELSE
    LET m4 == IF newnext # Nil
              THEN W(W(m3, node_handle, "prev", m3[newnext].prev),
                     newnext, "prev", node_handle)
              ELSE W(m3, head, "prev", node_handle)
    IN  IF m4[head].next = Nil \/ m4[head].prev = Nil
        THEN Panic(m4, cnt)
        ELSE Res(m4, {}, cnt, NoData)

\* ------------------------------------------------------------ Cache
NoEntries == [k \in {} |-> [elem |-> NoData, handle |-> Nil]]

Put(mp, k, e) == [x \in DOMAIN mp \cup {k} |-> IF x = k THEN e ELSE mp[x]]

Del(mp, k) == [x \in DOMAIN mp \ {k} |-> mp[x]]

\* once the nodes of fr are freed, every pointer to one of them dangles
\* and their memory is no longer the cache's
Stale(p, fr) == IF p \in fr THEN Dangling ELSE p

Freed(m, fr) ==
    [a \in DOMAIN m |->
        IF a \in fr THEN EmptyNode
        ELSE [next |-> Stale(m[a].next, fr), prev |-> Stale(m[a].prev, fr),
              data |-> m[a].data]]

FreedMap(mp, fr) ==
    [k \in DOMAIN mp |-> [elem |-> mp[k].elem, handle |-> Stale(mp[k].handle, fr)]]

\* what a cache operation leaves behind
CRes(r, al, mp, v) ==
    [mem |-> Freed(r.mem, r.freed), alloc |-> al \ r.freed,
     count |-> r.count, map |-> FreedMap(mp, r.freed), ret |-> v,
     panic |-> r.panic, ub |-> r.ub]

\* a constructor that lets a capacity of zero through
CapacityOkZero(capacity) == capacity >= 0

\* assert!(capacity > 0)
CapacityOk(capacity) == capacity > 0

\* an eviction test that lets the list grow one past the capacity
FullLate(cnt, c) == cnt > c

\* if self.list.count() >= self.cap
Full(cnt, c) == cnt >= c

\* the first half of Cache::insert: with the capacity reached, remove_last
\* and the removal of its key from the map, both checked
Evict(m, al, cnt, mp, c) ==
    IF ~Full(cnt, c) THEN CRes(Res(m, {}, cnt, NoData), al, mp, NoData)
    ELSE
    LET r == ListRemoveLast(m, cnt) IN
    IF r.panic \/ r.ub THEN CRes(r, al, mp, NoData)
    ELSE IF r.ret = NoData \/ r.ret \notin DOMAIN mp
         THEN CRes(Panic(r.mem, r.count), al, mp, NoData)
    ELSE CRes(r, al, Del(mp, r.ret), r.ret)

\* Cache::insert(key, elem), the new node's Box at address a
CacheInsert(m, al, cnt, mp, c, key, elem, a) ==
    LET e == Evict(m, al, cnt, mp, c) IN
    IF e.panic \/ e.ub THEN e
    ELSE
    LET r == ListInsert(e.mem, e.count, a, key)
    IN  CRes(r, e.alloc \cup {a},
             Put(e.map, key, [elem |-> elem, handle |-> r.ret]), NoData)

\* a get that moves the oldest node to the front before it looks the key up
CacheGetTouching(m, al, cnt, mp, key) ==
    IF key \notin DOMAIN mp
    THEN IF m[head].prev \in NodeAddrs
         THEN CRes(ListReinsertFront(m, cnt, m[head].prev), al, mp, NoData)
         ELSE CRes(Res(m, {}, cnt, NoData), al, mp, NoData)
    ELSE CRes(ListReinsertFront(m, cnt, mp[key].handle), al, mp, mp[key].elem)

\* Cache::get(key)
CacheGet(m, al, cnt, mp, key) ==
    IF key \notin DOMAIN mp
    THEN CRes(Res(m, {}, cnt, NoData), al, mp, NoData)
    ELSE CRes(ListReinsertFront(m, cnt, mp[key].handle), al, mp, mp[key].elem)

\* a remove that looks the entry up and leaves it in the map
CacheRemoveKeeping(m, al, cnt, mp, key) ==
    IF key \notin DOMAIN mp
    THEN CRes(Res(m, {}, cnt, NoData), al, mp, NoData)
    ELSE CRes(ListRemove(m, cnt, mp[key].handle), al, mp, mp[key].elem)

\* Cache::remove(key)
CacheRemove(m, al, cnt, mp, key) ==
    IF key \notin DOMAIN mp
    THEN CRes(Res(m, {}, cnt, NoData), al, mp, NoData)
    ELSE CRes(ListRemove(m, cnt, mp[key].handle), al, Del(mp, key), mp[key].elem)

\* an id that is handed out without being advanced
NextIdSame(i) == i

\* self.id += 1
NextId(i) == i + 1

\* ------------------------------------------------------------ addresses
\* The code never compares or computes with an address, so a state is the
\* same program state under any renaming of the Boxes.  After each call
\* the nodes are renamed in the order of the list (head.next first), then
\* whatever else is allocated or named by the map.
Range(q) == {q[i] : i \in 1..Len(q)}

RECURSIVE Walk(_, _, _)
Walk(m, p, acc) ==
    IF p = Nil \/ p = Dangling \/ p = head \/ p \in Range(acc) THEN acc
    ELSE Walk(m, m[p].next, Append(acc, p))

RECURSIVE Ascending(_, _)
Ascending(acc, S) ==
    IF S = {} THEN acc
    ELSE LET x == CHOOSE y \in S : \A z \in S : y <= z
         IN  Ascending(Append(acc, x), S \ {x})

Order(m, al, mp) ==
    LET listed == Walk(m, m[head].next, <<>>)
        others == (al \cup {mp[k].handle : k \in DOMAIN mp})
                      \ (Range(listed) \cup {Dangling})
    IN  Ascending(listed, others)

Renamed(r) ==
    LET ord   == Order(r.mem, r.alloc, r.map)
        To(p) == IF p = Nil \/ p = Dangling \/ p = head THEN p
                 ELSE CHOOSE i \in 1..Len(ord) : ord[i] = p
        Node(n) == [next |-> To(n.next), prev |-> To(n.prev), data |-> n.data]
    IN  [r EXCEPT
           !.mem   = [a \in Addrs |->
                        IF a = head THEN Node(r.mem[head])
                        ELSE IF a <= Len(ord) THEN Node(r.mem[ord[a]])
                        ELSE EmptyNode],
           !.alloc = {To(a) : a \in r.alloc},
           !.map   = [k \in DOMAIN r.map |->
                        [elem |-> r.map[k].elem, handle |-> To(r.map[k].handle)]]]

\* ------------------------------------------------------------ actions
Call(name, arg) == [name |-> name, arg |-> arg]

\* the live keys by their last insert or successful get, newest first
Touch(t, k) == <<k>> \o SelectSeq(t, LAMBDA x : x # k)

StillLive(t, mp) == SelectSeq(t, LAMBDA x : x \in DOMAIN mp)

\* after a panic has unwound out of a call, or the process has died, there
\* is no cache left to look at
Gone ==
    /\ mem' = LRUListNew
    /\ alloc' = {}
    /\ count' = 0
    /\ map' = NoEntries
    /\ ret' = NoData
    /\ touched' = <<>>

\* The state a call leaves.  A call that went through a dangling pointer
\* panics, kills the process, or carries on in a state of which nothing is
\* known; no call is modelled after it.
Finish(r, t) ==
    \/ /\ ~r.ub /\ ~r.panic
       /\ status' = "live"
       /\ ub' = ub
       /\ LET n == Renamed(r)
          IN  /\ mem' = n.mem
              /\ alloc' = n.alloc
              /\ map' = n.map
       /\ count' = r.count
       /\ ret' = r.ret
       /\ touched' = StillLive(t, r.map)
    \/ /\ ~r.ub /\ r.panic
       /\ status' = "panicked"
       /\ ub' = ub
       /\ Gone
    \/ /\ r.ub
       /\ status' \in {"panicked", "aborted", "undefined"}
       /\ ub' = TRUE
       /\ Gone

CacheUnbuilt ==
    /\ status = "unbuilt"
    /\ cap = 0
    /\ id = 0
    /\ count = 0
    /\ mem = LRUListNew
    /\ alloc = {}
    /\ map = NoEntries
    /\ ub = FALSE
    /\ op = Call("none", 0)
    /\ ret = NoData
    /\ touched = <<>>
    /\ idCalls = 0

Init ==
    /\ CacheUnbuilt
    /\ arena = Unbuilt
    /\ crc = Unbuilt
    /\ atom = Unbuilt
    /\ rnd = Unbuilt
    /\ lru = Unbuilt

\* Cache::new(capacity)
New(capacity) ==
    /\ status = "unbuilt"
    /\ op' = Call("new", capacity)
    /\ IF CapacityOk(capacity)
       THEN /\ status' = "live"
            /\ cap' = capacity
       ELSE /\ status' = "panicked"
            /\ cap' = cap
    /\ id' = 0
    /\ count' = 0
    /\ mem' = LRUListNew
    /\ map' = NoEntries
    /\ UNCHANGED <<alloc, ub, ret, touched, idCalls>>
    /\ UNCHANGED elsewhere

\* Cache::new_cache_id
NewCacheId ==
    /\ status = "live" /\ ~ub
    /\ idCalls < MaxId
    /\ op' = Call("new_cache_id", 0)
    /\ id' = NextId(id)
    /\ ret' = id'
    /\ idCalls' = idCalls + 1
    /\ UNCHANGED <<status, cap, count, mem, alloc, map, ub, touched>>
    /\ UNCHANGED elsewhere

Insert(key, elem) ==
    /\ status = "live" /\ ~ub
    /\ op' = Call("insert", key)
    /\ LET e == Evict(mem, alloc, count, map, cap)
       IN  \E a \in NodeAddrs \ e.alloc :
               Finish(CacheInsert(mem, alloc, count, map, cap, key, elem, a),
                      Touch(touched, key))
    /\ UNCHANGED <<cap, id, idCalls>>
    /\ UNCHANGED elsewhere

Get(key) ==
    /\ status = "live" /\ ~ub
    /\ op' = Call("get", key)
    /\ Finish(CacheGet(mem, alloc, count, map, key),
              IF key \in DOMAIN map THEN Touch(touched, key) ELSE touched)
    /\ UNCHANGED <<cap, id, idCalls>>
    /\ UNCHANGED elsewhere

Remove(key) ==
    /\ status = "live" /\ ~ub
    /\ op' = Call("remove", key)
    /\ Finish(CacheRemove(mem, alloc, count, map, key), touched)
    /\ UNCHANGED <<cap, id, idCalls>>
    /\ UNCHANGED elsewhere

Next ==
    \/ \E c \in 0..MaxCap : New(c)
    \/ NewCacheId
    \/ \E k \in Keys : \E v \in Vals : Insert(k, v)
    \/ \E k \in Keys : Get(k)
    \/ \E k \in Keys : Remove(k)

Spec == Init /\ [][Next]_vars

\* ------------------------------------------------------------ sanity
TypeOK ==
    /\ status \in {"unbuilt", "live", "panicked", "aborted", "undefined"}
    /\ cap \in 0..MaxCap
    /\ id \in 0..MaxId
    /\ count \in 0..MaxCap
    /\ alloc \subseteq NodeAddrs
    /\ DOMAIN map \subseteq Keys
    /\ Range(touched) = DOMAIN map
    /\ ub = (status \in {"aborted", "undefined"} \/ (status = "panicked" /\ ub))

\* ------------------------------------------------------------ claims
Without(q, k) == SelectSeq(q, LAMBDA x : x # k)

\* the entries that one eviction after another would destroy, in order,
\* and how the run of evictions ends: every node gone, a panic, or a
\* dereference of a dangling pointer
RECURSIVE Evictions(_, _, _, _, _)
Evictions(m, al, cnt, mp, acc) ==
    IF cnt = 0 THEN [keys |-> acc, panic |-> FALSE, ub |-> FALSE]
    ELSE LET e == Evict(m, al, cnt, mp, cnt)
         IN  IF e.panic \/ e.ub
             THEN [keys |-> acc, panic |-> e.panic, ub |-> e.ub]
             ELSE Evictions(e.mem, e.alloc, e.count, e.map, Append(acc, e.ret))

EvictionOrder(m, al, cnt, mp) == Evictions(m, al, cnt, mp, <<>>)

\* C1: an insert made while count() equals the capacity evicts exactly the
\* least-recently-used live entry (the live key whose last insert or
\* successful get is the oldest) and then adds the new one; no other entry
\* goes.
C1_InsertEvictsLeastRecentlyUsed ==
    [][\A k \in Keys :
         (status = "live" /\ count = cap /\ op' = Call("insert", k))
            => /\ status' = "live"
               /\ touched # <<>>
               /\ DOMAIN map' = (DOMAIN map \ {touched[Len(touched)]}) \cup {k}]_vars

\* C2: after every cache operation the map has as many entries as the list
\* has nodes, every handle in the map is a node linked in the list, and
\* every linked node is the one the map entry of its key points to.
C2_MapMatchesList ==
    status = "live" =>
        LET listed == Walk(mem, mem[head].next, <<>>)
        IN  /\ Cardinality(DOMAIN map) = Len(listed)
            /\ count = Len(listed)
            /\ \A k \in DOMAIN map : map[k].handle \in Range(listed)
            /\ \A i \in 1..Len(listed) :
                   /\ mem[listed[i]].data \in DOMAIN map
                   /\ map[mem[listed[i]].data].handle = listed[i]

\* C3: in every state reached from Cache::new(c), c > 0, count() <= cap(),
\* and cap() is c and stays c.
C3_CountWithinCapacity ==
    /\ [](status = "live" => count <= cap /\ cap > 0)
    /\ [][/\ (op'.name = "new" /\ status' = "live") => cap' = op'.arg
          /\ (status = "live" /\ status' = "live") => cap' = cap]_vars

C3_Witness ==
    /\ status = "live"
    /\ op.name = "insert"
    /\ count = cap
    /\ cap = MaxCap
    /\ Cardinality(DOMAIN map) = MaxCap
    /\ idCalls > 0

\* C4: a successful get(k) returns the value stored for k and makes k the
\* most recently used: k is now the last to be evicted, and the other
\* entries keep their eviction order.
C4_GetPromotes ==
    [][\A k \in Keys :
         (status = "live" /\ op' = Call("get", k) /\ k \in DOMAIN map)
            => /\ status' = "live"
               /\ ret' = map[k].elem
               /\ LET before == EvictionOrder(mem, alloc, count, map)
                      after  == EvictionOrder(mem', alloc', count', map')
                  IN  /\ ~after.ub
                      /\ \A i \in 1..Len(after.keys) :
                            after.keys[i] = k =>
                               DOMAIN map' \ {k} \subseteq
                                  {after.keys[x] : x \in 1..(i - 1)}
                      /\ (~before.ub /\ ~before.panic) =>
                            /\ ~after.panic
                            /\ after.keys = Without(before.keys, k) \o <<k>>]_vars

\* C5: an entry stays retrievable until remove(k) or until it is the
\* least-recently-used entry when an insert at full capacity evicts; no
\* other call makes get(k) absent, and only insert(k, _) changes its value.
C5_EntryLivesUntilDestroyed ==
    [][\A k \in Keys :
         (/\ status = "live"
          /\ k \in DOMAIN map
          /\ op'.name \in {"insert", "get", "remove"}
          /\ op' # Call("remove", k)
          /\ ~(op'.name = "insert" /\ count = cap /\ touched[Len(touched)] = k))
            => /\ status' = "live"
               /\ k \in DOMAIN map'
               /\ op' # Call("insert", k) => map'[k].elem = map[k].elem
               /\ LET g == CacheGet(mem', alloc', count', map', k)
                  IN  ~g.ub /\ ~g.panic /\ g.ret = map'[k].elem]_vars

\* C6: remove(k) of a live entry returns its value, takes it out of the
\* map and of the list (count() one less, get(k) then absent) and leaves
\* the values and the eviction order of the other entries as they were,
\* wherever k's node sits.
C6_RemoveLive ==
    [][\A k \in Keys :
         (status = "live" /\ op' = Call("remove", k) /\ k \in DOMAIN map)
            => /\ status' = "live"
               /\ ret' = map[k].elem
               /\ count' = count - 1
               /\ DOMAIN map' = DOMAIN map \ {k}
               /\ \A j \in DOMAIN map' : map'[j].elem = map[j].elem
               /\ LET before == EvictionOrder(mem, alloc, count, map)
                      after  == EvictionOrder(mem', alloc', count', map')
                  IN  (~before.ub /\ ~before.panic) =>
                          /\ ~after.ub /\ ~after.panic
                          /\ after.keys = Without(before.keys, k)]_vars

\* C7: remove(k) of a key with no live entry returns absent and changes
\* nothing; so the second of two remove(k) in a row returns absent.
C7_RemoveAbsent ==
    [][\A k \in Keys :
         /\ (status = "live" /\ op' = Call("remove", k) /\ k \notin DOMAIN map)
               => /\ status' = "live"
                  /\ ret' = NoData
                  /\ UNCHANGED <<cap, id, count, mem, alloc, map, touched>>
         /\ (status = "live" /\ op = Call("remove", k) /\ op' = Call("remove", k))
               => /\ status' = "live"
                  /\ ret' = NoData]_vars

C7_Witness ==
    /\ status = "live"
    /\ op.name = "remove"
    /\ ret = NoData
    /\ op.arg \notin DOMAIN map
    /\ count = MaxCap

\* C8: get(k) of a key with no live entry returns absent and leaves
\* count(), the map and the order of the list as they were.
C8_GetAbsent ==
    [][\A k \in Keys :
         (status = "live" /\ op' = Call("get", k) /\ k \notin DOMAIN map)
            => /\ status' = "live"
               /\ ret' = NoData
               /\ UNCHANGED <<cap, id, count, mem, alloc, map, touched>>]_vars

C8_Witness ==
    /\ status = "live"
    /\ op.name = "get"
    /\ ret = NoData
    /\ op.arg \notin DOMAIN map
    /\ count = MaxCap

\* C9: the n-th call of new_cache_id returns n, whatever is called in
\* between, and changes neither count() nor the contents nor the order.
C9_NewCacheId ==
    /\ [](op.name = "new_cache_id" => ret = idCalls)
    /\ [][op'.name = "new_cache_id" /\ idCalls' # idCalls
            => /\ ret' = idCalls + 1
               /\ ret' > id
               /\ UNCHANGED <<status, cap, count, mem, alloc, map, touched>>]_vars

C9_Witness ==
    /\ op.name = "new_cache_id"
    /\ ret = MaxId
    /\ idCalls = MaxId
    /\ count = MaxCap

\* C10: Cache::new(0) panics and leaves no cache; Cache::new(c), c > 0,
\* gives an empty cache with count() = 0 and cap() = c.
C10_New ==
    op.name = "new" =>
        IF op.arg = 0
        THEN status = "panicked"
        ELSE /\ status = "live"
             /\ cap = op.arg
             /\ count = 0
             /\ DOMAIN map = {}
             /\ mem[head].next = Nil

C10_Witness ==
    /\ op = Call("new", 0)
    /\ status = "panicked"

\* ============================================================ Arena
\* util::arena (src/src/util/arena.rs).  An address is a number, 0 the null
\* pointer; a block is a Vec<u8> the allocator has placed somewhere in the
\* heap, apart from every other block.  usize is the word of the target,
\* here one of WordBits bits, and the heap lies in the lower half of the
\* address space, so that no object is larger than isize::MAX.
MaxAllocs == 4

K_BLOCK_SIZE == 4096

WordBits == 16
Word     == 2 ^ WordBits
IsizeMax == Word \div 2 - 1

\* mem::size_of::<usize>()
PtrSize == WordBits \div 8

\* let align = if ptr_size > 8 { ptr_size } else { 8 }
Align == IF PtrSize > 8 THEN PtrSize ELSE 8

\* the sizes asked for: nothing, a byte, the quarter of a block and one
\* more, a block less a byte, usize::MAX
Sizes ==
    {0, 1, K_BLOCK_SIZE \div 4, K_BLOCK_SIZE \div 4 + 1, K_BLOCK_SIZE - 1, Word - 1}

allvars == <<vars, elsewhere>>

\* Arena::new(), in a build with or without overflow checks
ArenaNew(checks) ==
    [status |-> "live", checks |-> checks,
     ptr |-> 0, bytes_remaining |-> 0, memory_usage |-> 0, blocks |-> <<>>,
     op |-> Call("new", 0), ret |-> 0, fail |-> "none", calls |-> 0,
     regions |-> <<>>, leftover |-> {}, aligned |-> TRUE]

\* a call that does not return: the assertion or the check that stopped it
Failed(a, why) == [a EXCEPT !.fail = why, !.ret = 0]

\* a counter that grows by a standard block whatever was allocated
UsageOfStandardBlock(memory_usage, bytes) == memory_usage + K_BLOCK_SIZE

\* self.memory_usage + bytes as i64
Usage(memory_usage, bytes) == memory_usage + bytes

\* Arena::alloc_new(bytes), the allocator placing the Vec at base
AllocNew(a, bytes, base) ==
    IF bytes > IsizeMax THEN Failed(a, "capacity overflow")
    ELSE IF base + bytes > IsizeMax THEN Failed(a, "out of memory")
    ELSE [a EXCEPT !.blocks = Append(@, [base |-> base, size |-> bytes]),
                   !.memory_usage = Usage(@, bytes),
                   !.aligned = @ /\ base % Align = 0,
                   !.ret = base]

\* a threshold that sends the quarter of a block itself to a block of its own
OversizedFromQuarter(bytes) == bytes >= K_BLOCK_SIZE \div 4

\* if bytes > K_BLOCK_SIZE / 4
Oversized(bytes) == bytes > K_BLOCK_SIZE \div 4

\* what is left of the current block when the cursor moves to a new one
Leftover(a) ==
    IF a.bytes_remaining > 0
    THEN {[lo |-> a.ptr, hi |-> a.ptr + a.bytes_remaining]}
    ELSE {}

\* Arena::alloc_fallback(bytes)
AllocFallback(a, bytes, base) ==
    IF Oversized(bytes) THEN AllocNew(a, bytes, base)
    ELSE LET n == AllocNew(a, K_BLOCK_SIZE, base)
         IN  IF n.fail # "none" THEN n
             ELSE [n EXCEPT !.ptr = n.ret + bytes,
                            !.bytes_remaining = K_BLOCK_SIZE - bytes,
                            !.leftover = @ \cup Leftover(a)]

\* a test that refuses a request for exactly what is left
FitsWithRoom(bytes, bytes_remaining) == bytes < bytes_remaining

\* if bytes <= bytes_remaning
Fits(bytes, bytes_remaining) == bytes <= bytes_remaining

\* Arena::alloc(bytes)
Alloc(a, bytes, base) ==
    IF ~(bytes > 0) THEN Failed(a, "bytes > 0")
    ELSE IF Fits(bytes, a.bytes_remaining)
    THEN IF a.ptr = 0 THEN Failed(a, "ptr is null")
         ELSE [a EXCEPT !.ret = a.ptr,
                        !.ptr = a.ptr + bytes,
                        !.bytes_remaining = @ - bytes]
    ELSE AllocFallback(a, bytes, base)

\* a slop that is the misalignment itself, not what is missing to the next
\* multiple
SlopIsMod(current_mod) == current_mod

\* let slop = if current_mod == 0 { 0 } else { align - current_mod }
Slop(current_mod) == IF current_mod = 0 THEN 0 ELSE Align - current_mod

\* Arena::alloc_aliged(bytes).  bytes + slop is a usize addition: past
\* usize::MAX it panics where overflow checks are compiled in and wraps
\* where they are not.
AllocAliged(a, bytes, base) ==
    LET current_mod == a.ptr % Align
        slop        == Slop(current_mod)
        sum         == bytes + slop
        needed      == sum % Word
    IN  IF sum >= Word /\ a.checks THEN Failed(a, "add overflow")
        ELSE
        LET r == IF needed <= a.bytes_remaining
                 THEN IF slop > a.bytes_remaining
                      THEN Failed(a, "undefined")
                      ELSE [a EXCEPT !.ret = a.ptr + slop,
                                     !.ptr = a.ptr + needed,
                                     !.bytes_remaining = @ - needed]
                 ELSE AllocFallback(a, bytes, base)
        IN  IF r.fail = "none" /\ r.ret % Align # 0
            THEN Failed(r, "result is aligned")
            ELSE r

\* where the allocator may place the next Vec: past every block there is,
\* on a multiple of the alignment or one byte after it
Ends(a) == {a.blocks[i].base + a.blocks[i].size : i \in 1..Len(a.blocks)}

Bases(a) ==
    LET top == CHOOSE t \in Ends(a) \cup {Align} :
                   \A e \in Ends(a) \cup {Align} : e <= t
        up  == ((top + Align - 1) \div Align) * Align
    IN  {up, up + 1}

\* how a call ends: it returns, it panics, the process is aborted, or,
\* after a pointer was moved out of its block, anything
Outcomes(fail) ==
    IF fail = "none" THEN {"live"}
    ELSE IF fail = "out of memory" THEN {"aborted"}
    ELSE IF fail = "undefined" THEN {"panicked", "aborted", "undefined"}
    ELSE {"panicked"}

Returned(name, bytes, r) ==
    \E st \in Outcomes(r.fail) :
        arena' = [r EXCEPT !.status = st,
                           !.op = Call(name, bytes),
                           !.calls = @ + 1,
                           !.regions = IF r.fail = "none"
                                       THEN Append(@, [start |-> r.ret, len |-> bytes])
                                       ELSE @]

ArenaInit ==
    /\ CacheUnbuilt
    /\ arena \in {ArenaNew(checks) : checks \in BOOLEAN}
    /\ crc = Unbuilt
    /\ atom = Unbuilt
    /\ rnd = Unbuilt
    /\ lru = Unbuilt

ArenaAlloc(bytes) ==
    /\ arena.status = "live"
    /\ arena.calls < MaxAllocs
    /\ \E base \in Bases(arena) : Returned("alloc", bytes, Alloc(arena, bytes, base))
    /\ UNCHANGED <<vars, crc, atom, rnd, lru>>

ArenaAllocAliged(bytes) ==
    /\ arena.status = "live"
    /\ arena.calls < MaxAllocs
    /\ \E base \in Bases(arena) :
           Returned("alloc_aliged", bytes, AllocAliged(arena, bytes, base))
    /\ UNCHANGED <<vars, crc, atom, rnd, lru>>

ArenaNext ==
    \/ \E bytes \in Sizes : ArenaAlloc(bytes)
    \/ \E bytes \in Sizes : ArenaAllocAliged(bytes)

ArenaSpec == ArenaInit /\ [][ArenaNext]_allvars

\* ------------------------------------------------------------ Arena claims
\* a call of alloc or alloc_aliged is made in this step
ArenaCall == arena.status = "live" /\ arena'.calls = arena.calls + 1

\* the request of this step does not fit in what the current block has left
NoRoom ==
    IF arena'.op.name = "alloc"
    THEN arena'.op.arg > arena.bytes_remaining
    ELSE arena'.op.arg + Slop(arena.ptr % Align) > arena.bytes_remaining

RegionsApart(r1, r2) ==
    \/ r1.len = 0
    \/ r2.len = 0
    \/ r1.start + r1.len <= r2.start
    \/ r2.start + r2.len <= r1.start

RECURSIVE SumOfSizes(_)
SumOfSizes(blocks) ==
    IF blocks = <<>> THEN 0 ELSE Head(blocks).size + SumOfSizes(Tail(blocks))

\* C11: the regions returned by alloc and alloc_aliged (start, requested
\* length) are pairwise disjoint, within a block and across blocks.
C11_RegionsDisjoint ==
    \A i, j \in 1..Len(arena.regions) :
        i < j => RegionsApart(arena.regions[i], arena.regions[j])

\* C12: with every block placed on a multiple of the alignment, every
\* pointer alloc_aliged returns is a multiple of it, whatever the cursor's
\* misalignment and on either path, and its closing assertion never fails.
C12_AlignedResult ==
    (arena.aligned /\ arena.op.name = "alloc_aliged")
        => /\ arena.fail # "result is aligned"
           /\ arena.status = "live" => arena.ret % Align = 0

C12_Witness ==
    /\ arena.status = "live"
    /\ arena.aligned
    /\ arena.op.name = "alloc_aliged"
    /\ Len(arena.regions) >= 2
    /\ LET n == Len(arena.regions)
       IN  /\ arena.regions[n - 1].len = 1
           /\ arena.regions[n - 1].start % Align = 0
           /\ arena.regions[n].start = arena.regions[n - 1].start + Align
           /\ arena.regions[n].len = K_BLOCK_SIZE \div 4

\* C13: memory_usage() is the sum of the sizes of all blocks ever
\* allocated; it never decreases, grows by the size of a block when one is
\* allocated and stays as it is when the current block serves the request.
C13_MemoryUsage ==
    /\ [](arena.memory_usage = SumOfSizes(arena.blocks))
    /\ [][ArenaCall =>
            /\ arena'.memory_usage >= arena.memory_usage
            /\ \/ /\ arena'.blocks = arena.blocks
                  /\ arena'.memory_usage = arena.memory_usage
               \/ /\ Len(arena'.blocks) = Len(arena.blocks) + 1
                  /\ SubSeq(arena'.blocks, 1, Len(arena.blocks)) = arena.blocks
                  /\ arena'.memory_usage =
                        arena.memory_usage + arena'.blocks[Len(arena'.blocks)].size]_arena

C13_Witness ==
    /\ arena.status = "live"
    /\ Len(arena.blocks) = 2
    /\ arena.blocks[1].size = K_BLOCK_SIZE
    /\ arena.blocks[2].size = K_BLOCK_SIZE \div 4 + 1
    /\ Len(arena.regions) = 3
    /\ arena.memory_usage = K_BLOCK_SIZE + K_BLOCK_SIZE \div 4 + 1

\* C14: a request that does not fit in the current block and is larger
\* than a quarter of a standard block gets a block of its own of exactly
\* that size, whose start is returned; the cursor and bytes_remaining of
\* the current block stay as they are.
C14_DedicatedBlock ==
    [][(ArenaCall /\ NoRoom /\ arena'.op.arg > K_BLOCK_SIZE \div 4
          /\ arena'.status = "live")
         => /\ arena'.blocks =
                  Append(arena.blocks, [base |-> arena'.ret, size |-> arena'.op.arg])
            /\ arena'.ptr = arena.ptr
            /\ arena'.bytes_remaining = arena.bytes_remaining]_arena

C16_ServedFromCurrentBlock ==
    [][(ArenaCall /\ arena'.op.name = "alloc" /\ arena'.op.arg > 0
          /\ arena'.op.arg <= arena.bytes_remaining)
         => /\ arena'.status = "live"
            /\ arena'.ret = arena.ptr
            /\ arena'.ptr = arena.ptr + arena'.op.arg
            /\ arena'.bytes_remaining = arena.bytes_remaining - arena'.op.arg
            /\ arena'.blocks = arena.blocks
            /\ arena'.memory_usage = arena.memory_usage]_arena

C16_Witness ==
    /\ arena.status = "live"
    /\ arena.op = Call("alloc", K_BLOCK_SIZE - 1)
    /\ arena.bytes_remaining = 0
    /\ Len(arena.blocks) = 1
    /\ Len(arena.regions) = 2
    /\ arena.ret = arena.blocks[1].base + 1

\* C17: a request of size zero panics and leaves the arena as it was, for
\* alloc and for alloc_aliged, in every state of the arena.
C17_ZeroSizePanics ==
    [][(ArenaCall /\ arena'.op.arg = 0)
         => /\ arena'.status = "panicked"
            /\ arena'.ptr = arena.ptr
            /\ arena'.bytes_remaining = arena.bytes_remaining
            /\ arena'.memory_usage = arena.memory_usage
            /\ arena'.blocks = arena.blocks]_arena

\* ============================================================ crc32
\* util::crc32 (src/src/util/crc32.rs): mask and unmask.  A u32 is the
\* pair <<high half, low half>> of its two 16-bit halves, and the shifts,
\* the or and the wrapping arithmetic act on its 32 bits.
MaxSample == 4
MaxMask   == 2

Half == 2 ^ 16

\* the halves the checksums are made of: the edges of the range, the
\* halves around which adding MASK_DELTA carries, and a few others
Halves ==
    {0, 1, 2 ^ 15 - 1, 2 ^ 15, Half - 1, Half - 41602, Half - 60120, Half - 60121}
        \cup {(i * 7919) % Half : i \in 1..MaxSample}

Checksums == Halves \X Halves

\* const MASK_DELTA: u32 = 0xa282ead8
MASK_DELTA == <<41602, 60120>>

\* bit i of x, bit 0 the lowest
Bit(x, i) ==
    IF i < 16 THEN (x[2] \div 2 ^ i) % 2 ELSE (x[1] \div 2 ^ (i - 16)) % 2

RECURSIVE Weigh(_, _, _)
Weigh(f, from, to) ==
    IF from > to THEN 0 ELSE f[from] + 2 * Weigh(f, from + 1, to)

\* the u32 whose bit i is f[i]
OfBits(f) == <<Weigh(f, 16, 31), Weigh(f, 0, 15)>>

\* x >> n
Shr(x, n) == OfBits([i \in 0..31 |-> IF i + n <= 31 THEN Bit(x, i + n) ELSE 0])

\* x << n
Shl(x, n) == OfBits([i \in 0..31 |-> IF i >= n THEN Bit(x, i - n) ELSE 0])

\* x | y
BitOr(x, y) ==
    OfBits([i \in 0..31 |-> IF Bit(x, i) = 1 \/ Bit(y, i) = 1 THEN 1 ELSE 0])

\* x.wrapping_add(y)
WrappingAdd(x, y) ==
    LET lo == x[2] + y[2]
        hi == x[1] + y[1] + lo \div Half
    IN  <<hi % Half, lo % Half>>

\* x.wrapping_sub(y)
WrappingSub(x, y) ==
    LET lo == x[2] - y[2]
        hi == x[1] - y[1] - (IF lo < 0 THEN 1 ELSE 0)
    IN  <<(hi + Half) % Half, (lo + Half) % Half>>

\* mask(crc)
Mask(c) == WrappingAdd(BitOr(Shr(c, 15), Shl(c, 17)), MASK_DELTA)

\* an unmask that rotates the way mask does
UnmaskSameWay(masked_crc) ==
    LET rot == WrappingSub(masked_crc, MASK_DELTA)
    IN  BitOr(Shr(rot, 15), Shl(rot, 17))

\* unmask(masked_crc)
Unmask(masked_crc) ==
    LET rot == WrappingSub(masked_crc, MASK_DELTA)
    IN  BitOr(Shr(rot, 17), Shl(rot, 15))

\* a checksum x, the value v made of it by the masks and unmasks so far,
\* and how many of the masks are not yet undone
CrcOf(x) == [status |-> "live", x |-> x, v |-> x, masks |-> 0, op |-> "value"]

CrcInit ==
    /\ CacheUnbuilt
    /\ arena = Unbuilt
    /\ crc \in {CrcOf(x) : x \in Checksums}
    /\ atom = Unbuilt
    /\ rnd = Unbuilt
    /\ lru = Unbuilt

CrcMask ==
    /\ crc.status = "live"
    /\ crc.masks < MaxMask
    /\ crc' = [crc EXCEPT !.v = Mask(@), !.masks = @ + 1, !.op = "mask"]
    /\ UNCHANGED <<vars, arena, atom, rnd, lru>>

CrcUnmask ==
    /\ crc.status = "live"
    /\ crc.masks > 0
    /\ crc' = [crc EXCEPT !.v = Unmask(@), !.masks = @ - 1, !.op = "unmask"]
    /\ UNCHANGED <<vars, arena, atom, rnd, lru>>

CrcNext ==
    \/ CrcMask
    \/ CrcUnmask

CrcSpec == CrcInit /\ [][CrcNext]_allvars

\* C18: unmask(mask(x)) = x for every 32-bit x, and so is
\* unmask(unmask(mask(mask(x)))): once every mask is undone by an unmask
\* the value is the checksum again.
C18_UnmaskUndoesMask ==
    /\ crc.v[1] \in 0..(Half - 1)
    /\ crc.v[2] \in 0..(Half - 1)
    /\ crc.masks = 0 => crc.v = crc.x

C18_Witness ==
    /\ crc.op = "unmask"
    /\ crc.masks = 0
    /\ crc.x = <<Half - 1, Half - 60120>>
    /\ crc.v = crc.x
    /\ Mask(crc.x) # crc.x

\* mask(0x12345678) is 0x4f730f40 and mask(0) is MASK_DELTA
CrcKnownValues ==
    /\ Mask(<<4660, 22136>>) = <<20339, 3904>>
    /\ Mask(<<0, 0>>) = MASK_DELTA
    /\ Unmask(MASK_DELTA) = <<0, 0>>

\* ============================================================ atomic
\* util::atomic (src/src/util/atomic.rs).  The cell is an UnsafeCell read
\* and written by plain loads and stores; acquire_load and release_store
\* add a compiler_fence, which constrains the compiler and emits no
\* instruction.  A writer thread fills MaxCells plain cells and then
\* release_stores 1; a reader thread acquire_loads the cell and then reads
\* the plain cells.  Each access takes effect at some moment; two accesses
\* of a thread take effect in program order when both the compiler and the
\* processor keep them in that order.
MaxCells == 2

Cells == 1..MaxCells

\* the location of the atomic's rep, the plain cells being 1..MaxCells
Rep == 0

Access(kind, loc) == [kind |-> kind, loc |-> loc, ord |-> "none"]

CompilerFence(ord) == [kind |-> "fence", loc |-> Rep, ord |-> ord]

\* acquire_load: the address of rep is taken, then the fence, then the
\* load through the address
AcquireLoad == <<CompilerFence("Acquire"), Access("read", Rep)>>

\* release_store: the fence, then the store
ReleaseStore == <<CompilerFence("Release"), Access("write", Rep)>>

RECURSIVE Each(_, _)
Each(kind, n) == IF n = 0 THEN <<>> ELSE Append(Each(kind, n - 1), Access(kind, n))

Program(thread) ==
    IF thread = "writer" THEN Each("write", MaxCells) \o ReleaseStore
    ELSE AcquireLoad \o Each("read", MaxCells)

\* compiler_fence(Release): no access before it moves after a write that
\* follows it; compiler_fence(Acquire): no access after it moves before a
\* read that precedes it.  Accesses of one location keep their order.
CompilerKeeps(prog, i, j) ==
    \/ prog[i].loc = prog[j].loc
    \/ \E f \in (i + 1)..(j - 1) :
          /\ prog[f].kind = "fence"
          /\ \/ prog[f].ord = "Release" /\ prog[j].kind = "write"
             \/ prog[f].ord = "Acquire" /\ prog[i].kind = "read"

\* a processor with total store order keeps every pair but a write
\* followed by a read; a weakly ordered one keeps only the accesses of one
\* location
ProcessorKeeps(target, a, b) ==
    \/ a.loc = b.loc
    \/ target = "tso" /\ ~(a.kind = "write" /\ b.kind = "read")

Kept(target, prog, i, j) ==
    CompilerKeeps(prog, i, j) /\ ProcessorKeeps(target, prog[i], prog[j])

Threads == {"writer", "reader"}

AtomNew(target) ==
    [status |-> "live", target |-> target,
     mem  |-> [l \in {Rep} \cup Cells |-> 0],
     done |-> [t \in Threads |-> {}],
     seen |-> [l \in {Rep} \cup Cells |-> -1]]

AtomInit ==
    /\ CacheUnbuilt
    /\ arena = Unbuilt
    /\ crc = Unbuilt
    /\ atom \in {AtomNew(target) : target \in {"tso", "weak"}}
    /\ rnd = Unbuilt
    /\ lru = Unbuilt

\* access i of the thread may take effect now
Ready(thread, i) ==
    LET prog == Program(thread)
    IN  /\ i \in 1..Len(prog)
        /\ prog[i].kind # "fence"
        /\ i \notin atom.done[thread]
        /\ \A j \in 1..(i - 1) :
              (prog[j].kind # "fence" /\ j \notin atom.done[thread])
                  => ~Kept(atom.target, prog, j, i)

WriterStep(i) ==
    /\ atom.status = "live"
    /\ Ready("writer", i)
    /\ atom' = [atom EXCEPT !.mem[Program("writer")[i].loc] = 1,
                            !.done["writer"] = @ \cup {i}]
    /\ UNCHANGED <<vars, arena, crc, rnd, lru>>

ReaderStep(i) ==
    /\ atom.status = "live"
    /\ Ready("reader", i)
    /\ atom' = [atom EXCEPT !.seen[Program("reader")[i].loc] =
                                atom.mem[Program("reader")[i].loc],
                            !.done["reader"] = @ \cup {i}]
    /\ UNCHANGED <<vars, arena, crc, rnd, lru>>

AtomNext ==
    \/ \E i \in 1..(MaxCells + 2) : WriterStep(i)
    \/ \E i \in 1..(MaxCells + 2) : ReaderStep(i)

AtomSpec == AtomInit /\ [][AtomNext]_allvars

\* C19: no access that follows an acquire_load takes effect before the
\* load, no access that precedes a release_store takes effect after the
\* store; so a reader that acquire-loads the value a writer release-stored
\* sees every write the writer made before the release_store.
C19_AcquireReleaseOrder ==
    /\ \A l \in Cells : atom.seen[l] # -1 => atom.seen[Rep] # -1
    /\ atom.mem[Rep] = 1 => \A l \in Cells : atom.mem[l] = 1
    /\ atom.seen[Rep] = 1 => \A l \in Cells : atom.seen[l] \in {-1, 1}

\* ============================================================ random
\* util::random (src/src/util/random.rs).  A u32 is again the pair of its
\* halves; the u64 product of next() is four of them, lowest last.  One
\* generator is built for each seed of Seeds, and next() is called on any
\* of them, up to MaxNext times each.
MaxNext == 3

MERSENNE_PRIME == 2147483647

\* the halves of a number below 2^31
Halved(n) == <<n \div Half, n % Half>>

\* x & y
BitAnd(x, y) ==
    OfBits([i \in 0..31 |-> IF Bit(x, i) = 1 /\ Bit(y, i) = 1 THEN 1 ELSE 0])

\* x > y
Above(x, y) == x[1] > y[1] \/ (x[1] = y[1] /\ x[2] > y[2])

\* the seeds given to Random::new: 0, 1, 3, 2^31 - 1, 2^31 and 2^32 - 1
Seeds ==
    {Halved(0), Halved(1), Halved(3), Halved(MERSENNE_PRIME),
     <<2 ^ 15, 0>>, <<Half - 1, Half - 1>>}

\* a constructor that checks the seed for zero only
RandomNewZeroOnly(s) ==
    LET seed == BitAnd(s, Halved(MERSENNE_PRIME))
    IN  IF seed = Halved(0) THEN Halved(1) ELSE seed

\* Random::new(s): the seed the generator starts with
RandomNew(s) ==
    LET seed == BitAnd(s, Halved(MERSENNE_PRIME))
    IN  IF seed = Halved(0) \/ seed = Halved(MERSENNE_PRIME) THEN Halved(1) ELSE seed

\* seed as u64 * a, for a below 2^15
Product(seed, a) ==
    LET low  == seed[2] * a
        high == seed[1] * a + low \div Half
    IN  <<0, high \div Half, high % Half, low % Half>>

\* (product >> 31) as u32
Shr31(product) ==
    LET n == product[2] * 2 + product[3] \div 2 ^ 15
    IN  <<(product[1] * 2 ^ 17 + n \div Half) % Half, n % Half>>

\* product as u32
Low32(product) == <<product[3], product[4]>>

\* Random::next(): the new seed, which is also the value returned
RandomNext(seed) ==
    LET m       == Halved(MERSENNE_PRIME)
        product == Product(seed, 16807)
        sum     == WrappingAdd(Shr31(product), BitAnd(Low32(product), m))
    IN  IF Above(sum, m) THEN WrappingSub(sum, m) ELSE sum

RandomInit ==
    /\ CacheUnbuilt
    /\ arena = Unbuilt
    /\ crc = Unbuilt
    /\ atom = Unbuilt
    /\ rnd = [status |-> "live",
              gen |-> [s \in Seeds |->
                         [first |-> RandomNew(s), seed |-> RandomNew(s), out |-> <<>>]]]
    /\ lru = Unbuilt

Next_(s) ==
    /\ rnd.status = "live"
    /\ Len(rnd.gen[s].out) < MaxNext
    /\ LET n == RandomNext(rnd.gen[s].seed)
       IN  rnd' = [rnd EXCEPT !.gen[s].seed = n, !.gen[s].out = Append(@, n)]
    /\ UNCHANGED <<vars, arena, crc, atom, lru>>

RandomStep ==
    \E s \in Seeds : Next_(s)

RandomSpec == RandomInit /\ [][RandomStep]_allvars

\* what the shorter of two sequences holds, the longer holds too
SameSoFar(p, q) ==
    \A i \in 1..Len(p) : i <= Len(q) => p[i] = q[i]

\* C20: Random::new(0) and Random::new(2^31 - 1) start in state 1, as
\* Random::new(1) does, and the sequences of next() values from the three
\* seeds are the same.
C20_SeedsNormalised ==
    LET zero  == rnd.gen[Halved(0)]
        one   == rnd.gen[Halved(1)]
        prime == rnd.gen[Halved(MERSENNE_PRIME)]
    IN  /\ zero.first = Halved(1)
        /\ prime.first = Halved(1)
        /\ one.first = Halved(1)
        /\ SameSoFar(zero.out, one.out)
        /\ SameSoFar(zero.out, prime.out)
        /\ SameSoFar(one.out, prime.out)

C20_Witness ==
    /\ rnd.gen[Halved(0)].out = <<Halved(16807), Halved(282475249), Halved(1622650073)>>
    /\ rnd.gen[Halved(1)].out = rnd.gen[Halved(0)].out
    /\ rnd.gen[Halved(MERSENNE_PRIME)].out = rnd.gen[Halved(0)].out
    /\ rnd.gen[Halved(3)].out = <<Halved(50421), Halved(847425747)>>

\* ------------------------------------------------------------ cache safety
\* C21: no cache call reads or writes a list node that has already been
\* removed: every pointer a call goes through (a handle out of the map, a
\* node's prev, the sentinel's prev) names the sentinel or a linked node.
C21_NoRemovedNodeTouched ==
    [][status = "live" => ~ub']_vars

\* C27: the checks of Cache::insert never fire: whenever insert finds the
\* capacity reached, remove_last returns a key and that key is in the map.
C27_InsertChecksNeverFire ==
    [][\A k \in Keys :
         (status = "live" /\ op' = Call("insert", k) /\ Full(count, cap))
            => LET r == ListRemoveLast(mem, count)
               IN  /\ ~r.panic
                   /\ ~r.ub => (r.ret # NoData /\ r.ret \in DOMAIN map)]_vars

\* ------------------------------------------------------------ LRUList alone
\* The list driven directly, as the tests of cache.rs drive it: insert,
\* remove_last, and remove and reinsert_front on a handle that insert
\* returned and whose node has not been removed since.  The elements are
\* the cache's keys, the Boxes live at the cache's addresses.
LruNew ==
    [status |-> "live", mem |-> LRUListNew, alloc |-> {}, count |-> 0,
     op |-> Call("new", 0), ret |-> NoData,
     \* the handles in the order of their insertion, oldest first, for as
     \* long as nothing but insert and remove_last has been called
     plain |-> TRUE, born |-> <<>>]

\* a panic has unwound out of the call or the process has died: there is
\* no list left to look at
LruGone(st, name, arg) ==
    [status |-> st, mem |-> LRUListNew, alloc |-> {}, count |-> 0,
     op |-> Call(name, arg), ret |-> NoData, plain |-> FALSE, born |-> <<>>]

\* The list a call leaves: the Boxes it dropped are freed, the pointers to
\* them dangle, and the nodes are renamed in the order of the list.
LruAfter(boxes, name, arg, r, pl, bn) ==
    LET fm    == Freed(r.mem, r.freed)
        al    == boxes \ r.freed
        ord   == Order(fm, al, NoEntries)
        To(p) == IF p = Nil \/ p = Dangling \/ p = head THEN p
                 ELSE CHOOSE i \in 1..Len(ord) : ord[i] = p
        n     == Renamed([mem |-> fm, alloc |-> al, map |-> NoEntries])
        kept  == SelectSeq(bn, LAMBDA h : h \in al)
    IN  [status |-> "live", mem |-> n.mem, alloc |-> n.alloc, count |-> r.count,
         op |-> Call(name, arg),
         ret |-> IF name = "insert" THEN To(r.ret) ELSE r.ret,
         plain |-> pl,
         born |-> IF pl THEN [i \in 1..Len(kept) |-> To(kept[i])] ELSE <<>>]

\* A call that went through a dangling pointer panics, kills the process,
\* or carries on in a state of which nothing is known.
LruFinish(boxes, name, arg, r, pl, bn) ==
    \/ /\ ~r.ub /\ ~r.panic
       /\ lru' = LruAfter(boxes, name, arg, r, pl, bn)
    \/ /\ ~r.ub /\ r.panic
       /\ lru' = LruGone("panicked", name, arg)
    \/ /\ r.ub
       /\ \E st \in {"panicked", "aborted", "undefined"} :
              lru' = LruGone(st, name, arg)

LruInit ==
    /\ CacheUnbuilt
    /\ arena = Unbuilt
    /\ crc = Unbuilt
    /\ atom = Unbuilt
    /\ rnd = Unbuilt
    /\ lru = LruNew

\* lru.insert(elem), the new Box at any address that is not allocated
LruInsert(elem) ==
    /\ lru.status = "live"
    /\ \E a \in NodeAddrs \ lru.alloc :
           LET r == ListInsert(lru.mem, lru.count, a, elem)
           IN  LruFinish(lru.alloc \cup {a}, "insert", elem, r,
                         lru.plain, Append(lru.born, a))
    /\ UNCHANGED <<vars, arena, crc, atom, rnd>>

\* a remove_last that takes the node at head.next, the most recently used
LruRemoveFirst ==
    /\ lru.status = "live"
    /\ LruFinish(lru.alloc, "remove_last", 0,
                 IF lru.count = 0 THEN Res(lru.mem, {}, lru.count, NoData)
                 ELSE ListRemove(lru.mem, lru.count, lru.mem[head].next),
                 lru.plain, lru.born)
    /\ UNCHANGED <<vars, arena, crc, atom, rnd>>

\* lru.remove_last()
LruRemoveLast ==
    /\ lru.status = "live"
    /\ LruFinish(lru.alloc, "remove_last", 0,
                 ListRemoveLast(lru.mem, lru.count), lru.plain, lru.born)
    /\ UNCHANGED <<vars, arena, crc, atom, rnd>>

\* lru.remove(node_handle)
LruRemove(node_handle) ==
    /\ lru.status = "live"
    /\ node_handle \in lru.alloc
    /\ LruFinish(lru.alloc, "remove", node_handle,
                 ListRemove(lru.mem, lru.count, node_handle), FALSE, <<>>)
    /\ UNCHANGED <<vars, arena, crc, atom, rnd>>

\* lru.reinsert_front(node_handle)
LruReinsertFront(node_handle) ==
    /\ lru.status = "live"
    /\ node_handle \in lru.alloc
    /\ LruFinish(lru.alloc, "reinsert_front", node_handle,
                 ListReinsertFront(lru.mem, lru.count, node_handle), FALSE, <<>>)
    /\ UNCHANGED <<vars, arena, crc, atom, rnd>>

LruNext ==
    \/ \E elem \in Keys : LruInsert(elem)
    \/ LruRemoveLast
    \/ \E h \in NodeAddrs : LruRemove(h)
    \/ \E h \in NodeAddrs : LruReinsertFront(h)

LruSpec == LruInit /\ [][LruNext]_allvars

\* ------------------------------------------------------------ LRUList claims
\* the nodes reached from the sentinel through next, head.next first
Listed(l) == Walk(l.mem, l.mem[head].next, <<>>)

\* and what they hold
Held(l) == [i \in 1..Len(Listed(l)) |-> l.mem[Listed(l)[i]].data]

\* a sequence without its i-th element
Dropped(q, i) == [j \in 1..(Len(q) - 1) |-> IF j < i THEN q[j] ELSE q[j + 1]]

\* where the node of a handle sits in the list (0: nowhere)
Place(l, h) ==
    IF h \in Range(Listed(l))
    THEN CHOOSE i \in 1..Len(Listed(l)) : Listed(l)[i] = h
    ELSE 0

\* a call of the list is made in this step and the list is still there
LruCall(name) ==
    /\ lru.status = "live"
    /\ lru'.status = "live"
    /\ lru'.op.name = name

\* C22: after every list operation that leaves count() > 0, head.prev is
\* the last node of the chain of next that starts at head.next (the least
\* recently used) and head.next is the most recently used node: the node
\* just inserted or reinserted, else the front node that was left.  So it
\* is after remove(handle) of the tail.
C22_SentinelNamesBothEnds ==
    [][(/\ lru.status = "live"
        /\ lru'.status = "live"
        /\ lru'.op.name \in {"insert", "remove_last", "remove", "reinsert_front"}
        /\ lru'.count > 0)
          => /\ Listed(lru') # <<>>
             /\ lru'.mem[head].next = Head(Listed(lru'))
             /\ lru'.mem[head].prev = Listed(lru')[Len(Listed(lru'))]
             /\ LruCall("insert") =>
                    /\ lru'.ret = lru'.mem[head].next
                    /\ Head(Held(lru')) = lru'.op.arg
             /\ LruCall("reinsert_front") =>
                    Head(Held(lru')) = lru.mem[lru'.op.arg].data
             /\ LruCall("remove") =>
                    Head(Held(lru')) =
                        Head(Dropped(Held(lru), Place(lru, lru'.op.arg)))
             /\ LruCall("remove_last") =>
                    Head(Held(lru')) = Head(Held(lru))]_allvars

Born(l) == [i \in 1..Len(l.born) |-> l.mem[l.born[i]].data]

\* the list that insert(elem) makes of a fresh list
FreshWith(elem) ==
    LruAfter({1}, "insert", elem, ListInsert(LRUListNew, 0, 1, elem), TRUE, <<1>>)

\* C24: on a list driven only by insert and remove_last, every insert
\* puts the new value at head.next and remove_last returns the values in
\* the order of their insertion, oldest first; on the empty list
\* remove_last returns nothing and changes nothing, and an insert that
\* follows gives the list that it gives on a fresh list.
C24_RemoveLastIsFifo ==
    [][(lru.status = "live" /\ lru.plain
            /\ lru'.op.name \in {"insert", "remove_last"})
          => /\ lru'.status = "live"
             /\ LruCall("insert") =>
                    /\ lru'.mem[head].next = lru'.ret
                    /\ Held(lru') = <<lru'.op.arg>> \o Held(lru)
                    /\ Born(lru') = Append(Born(lru), lru'.op.arg)
                    /\ lru.count = 0 =>
                          /\ lru'.mem = FreshWith(lru'.op.arg).mem
                          /\ lru'.count = 1
             /\ LruCall("remove_last") =>
                    IF Born(lru) = <<>>
                    THEN /\ lru'.ret = NoData
                         /\ lru'.mem = lru.mem
                         /\ lru'.count = lru.count
                         /\ Held(lru') = <<>>
                    ELSE /\ lru'.ret = Head(Born(lru))
                         /\ Born(lru') = Tail(Born(lru))
                         /\ Held(lru') = SubSeq(Held(lru), 1, Len(Held(lru)) - 1)]_allvars

C24_Witness ==
    /\ lru.status = "live"
    /\ lru.plain
    /\ lru.op.name = "remove_last"
    /\ lru.ret # NoData
    /\ lru.count = MaxCap
    /\ lru.ret \notin Range(Held(lru))

Reverse(q) == [i \in 1..Len(q) |-> q[Len(q) + 1 - i]]

\* what one remove_last after another returns until count() is 0, and
\* how the run ends: the list empty, a panic, or a dereference of a
\* dangling pointer
RECURSIVE Drained(_, _, _)
Drained(m, cnt, acc) ==
    IF cnt = 0 THEN [vals |-> acc, panic |-> FALSE, ub |-> FALSE]
    ELSE LET r == ListRemoveLast(m, cnt)
         IN  IF r.panic \/ r.ub
             THEN [vals |-> acc, panic |-> r.panic, ub |-> r.ub]
             ELSE Drained(Freed(r.mem, r.freed), r.count, Append(acc, r.ret))

\* C25: reinsert_front(h) on a live handle moves h's node to head.next and
\* keeps count(), every payload and the order of the other nodes, wherever
\* the node sits; a node already at the front leaves every node and the
\* sentinel as they were (a back-reference of the sentinel that dangled
\* may have been set right); remove_last after remove_last then returns
\* the other values in their previous order and h's value last.
C25_ReinsertFrontMoves ==
    [][\A h \in NodeAddrs :
         (lru.status = "live" /\ h \in lru.alloc
              /\ lru'.op = Call("reinsert_front", h))
            => LET i    == Place(lru, h)
                   v    == lru.mem[h].data
                   rest == Dropped(Held(lru), i)
               IN  /\ lru'.status = "live"
                   /\ i > 0
                   /\ lru'.count = lru.count
                   /\ Held(lru') = <<v>> \o rest
                   /\ i = 1 =>
                          /\ \A a \in NodeAddrs : lru'.mem[a] = lru.mem[a]
                          /\ lru'.mem[head].next = lru.mem[head].next
                          /\ lru.mem[head].prev # Dangling =>
                                 lru'.mem[head].prev = lru.mem[head].prev
                   /\ LET d == Drained(lru'.mem, lru'.count, <<>>)
                      IN  /\ ~d.ub
                          /\ ~d.panic
                          /\ d.vals = Reverse(rest) \o <<v>>]_allvars

\* ------------------------------------------------------------ Arena, more claims
\* C26: alloc_aliged(s) pads the cursor by slop = (A - cursor mod A) mod A,
\* A the alignment.  When s + slop <= bytes_remaining it returns
\* cursor + slop and takes exactly s + slop off bytes_remaining; when
\* s + slop > bytes_remaining it does what the fallback of alloc does for
\* s.  (Blocks placed on a multiple of the alignment, as in C12.)
C26_SlopOrFallback ==
    [][(ArenaCall /\ arena'.op.name = "alloc_aliged" /\ arena'.aligned)
         => LET s    == arena'.op.arg
                slop == (Align - (arena.ptr % Align)) % Align
            IN  IF s + slop <= arena.bytes_remaining
                THEN /\ arena'.status = "live"
                     /\ arena'.ret = arena.ptr + slop
                     /\ arena'.ptr = arena.ptr + slop + s
                     /\ arena'.bytes_remaining = arena.bytes_remaining - (s + slop)
                     /\ arena'.blocks = arena.blocks
                     /\ arena'.memory_usage = arena.memory_usage
                ELSE \E base \in Bases(arena) :
                        LET f == AllocFallback(arena, s, base)
                        IN  /\ arena'.status \in Outcomes(f.fail)
                            /\ arena'.ret = f.ret
                            /\ arena'.ptr = f.ptr
                            /\ arena'.bytes_remaining = f.bytes_remaining
                            /\ arena'.blocks = f.blocks
                            /\ arena'.memory_usage = f.memory_usage]_arena

\* the standard blocks, those the cursor was moved to, oldest first
StandardBlocks(a) == SelectSeq(a.blocks, LAMBDA b : b.size = K_BLOCK_SIZE)

\* region r lies within one of the blocks
Within(r, blocks) ==
    \/ r.len = 0
    \/ \E i \in 1..Len(blocks) :
          /\ blocks[i].base <= r.start
          /\ r.start + r.len <= blocks[i].base + blocks[i].size

\* C28: the cursor stays inside the current standard block:
\* bytes_remaining <= 4096, the cursor is not null while bytes_remaining
\* > 0 (the assertion of alloc never fails), cursor + bytes_remaining is
\* the end of the standard block allocated last, and every region
\* returned lies within a block of the arena.
C28_CursorInsideCurrentBlock ==
    /\ arena.status # "unbuilt" => arena.fail # "ptr is null"
    /\ arena.status = "live" =>
          /\ arena.bytes_remaining <= K_BLOCK_SIZE
          /\ arena.bytes_remaining > 0 => arena.ptr # 0
          /\ LET std == StandardBlocks(arena)
             IN  IF std = <<>>
                 THEN arena.ptr = 0 /\ arena.bytes_remaining = 0
                 ELSE arena.ptr + arena.bytes_remaining =
                         std[Len(std)].base + std[Len(std)].size
          /\ \A i \in 1..Len(arena.regions) : Within(arena.regions[i], arena.blocks)

====
